---- MODULE Spec2Model ----
(***************************************************************************)
(* Model of flight_agent.py: the trip-planning coordinator                 *)
(* (create_itinerary), the date-sweep aggregator                           *)
(* (analyze_flexible_dates), the value ranking filter                      *)
(* (find_best_value_flights) and the itinerary generator                   *)
(* (create_structured_itinerary) with its repair / fallback ladder.        *)
(*                                                                         *)
(* Upstream providers (flight/hotel search, web search, text generation)   *)
(* are the environment: every call draws its outcome from a finite set of  *)
(* response shapes.  Python values are represented as follows: None of a   *)
(* string-valued field is the string "None" (a key that is not there at    *)
(* all is Missing where the code tells the two apart), None of a price is  *)
(* NoPrice,                                                                *)
(* a date is the ISO string the program handles, converted to and from a   *)
(* day index by Strptime / Strftime over the Calendar table.  Dates in     *)
(* requests are well-formed ISO dates (the request contract of the         *)
(* endpoint); keywords are not modelled.                                   *)
(***************************************************************************)
EXTENDS Integers, Sequences, FiniteSets, TLC

VARIABLES
    city_table,      \* the module-level dict AIRPORT_TO_CITY
    pc,              \* position in the handler / function under study
    request,         \* request.json of the inbound POST /itinerary
    status,          \* HTTP status of the answer: 0 (none yet), 200, 400, 500
    destination_city, \* create_itinerary local
    duration_days,   \* create_itinerary local
    return_date,     \* create_itinerary local (given or synthesized)
    days_range,      \* analyze_flexible_dates parameter
    i,               \* analyze_flexible_dates loop index
    all_flights,     \* analyze_flexible_dates results / create_itinerary all_flights
    responses,       \* history: the upstream answer to each flight search issued
    calls,           \* history: every upstream call issued, in order
    best_flights,    \* find_best_value_flights result
    hotels,          \* search_hotels result
    hotel_options,   \* create_itinerary local
    airbnb_options,  \* create_itinerary local
    web,             \* the upstream answer to the rental web search
    gen,             \* the generation outcome create_structured_itinerary saw
    path,            \* terminal state of the generator ladder: accept, repair, fallback
    itinerary,       \* create_structured_itinerary result
    response,        \* cost fields of the response payload
    raised           \* "" or the function in which an uncaught exception arose

vars == <<city_table, pc, request, status, destination_city, duration_days, return_date, days_range, i,
          all_flights, responses, calls, best_flights, hotels, hotel_options,
          airbnb_options, web, gen, path, itinerary, response, raised>>

-----------------------------------------------------------------------------
(* Python values *)

\* Python None of a string-valued field: a JSON null, or what dict.get(key)
\* without a default yields for a missing key.
None == "None"

\* A key that is not in the dict, for the fields read by dict.get(key, default):
\* the default applies to a missing key only, a JSON null stays None.
Missing == "Missing"

\* None of a flight price: flight.get("price") on an offer carrying no price.
NoPrice == -1

\* Python truthiness of a string-valued field: None and "" are falsy.
Truthy(v) == v /= None /\ v /= ""

Min(a, b) == IF a <= b THEN a ELSE b

Max(a, b) == IF a >= b THEN a ELSE b

\* s[:n]
Take(s, n) == SubSeq(s, 1, Min(n, Len(s)))

\* All sequences over S of length 0..n.
SeqsUpTo(S, n) == UNION {[1..k -> S] : k \in 0..n}

-----------------------------------------------------------------------------
(* Dates: datetime.strptime(s, "%Y-%m-%d"), + timedelta(days=n), strftime *)

Calendar ==
    <<
       "2025-01-01", "2025-01-02", "2025-01-03", "2025-01-04", "2025-01-05", "2025-01-06",
       "2025-01-07", "2025-01-08", "2025-01-09", "2025-01-10", "2025-01-11", "2025-01-12",
       "2025-01-13", "2025-01-14", "2025-01-15", "2025-01-16", "2025-01-17", "2025-01-18",
       "2025-01-19", "2025-01-20", "2025-01-21", "2025-01-22", "2025-01-23", "2025-01-24",
       "2025-01-25", "2025-01-26", "2025-01-27", "2025-01-28", "2025-01-29", "2025-01-30",
       "2025-01-31", "2025-02-01", "2025-02-02", "2025-02-03", "2025-02-04", "2025-02-05",
       "2025-02-06", "2025-02-07", "2025-02-08", "2025-02-09", "2025-02-10", "2025-02-11",
       "2025-02-12", "2025-02-13", "2025-02-14", "2025-02-15", "2025-02-16", "2025-02-17",
       "2025-02-18", "2025-02-19", "2025-02-20", "2025-02-21", "2025-02-22", "2025-02-23",
       "2025-02-24", "2025-02-25", "2025-02-26", "2025-02-27", "2025-02-28" >>

\* datetime.strptime(s, "%Y-%m-%d"), as a day index of the calendar window.
Strptime(s) == CHOOSE k \in 1..Len(Calendar) : Calendar[k] = s

\* date.strftime("%Y-%m-%d")
Strftime(k) == Calendar[k]

\* (strptime(date) + timedelta(days=n)).strftime(...)
AddDays(date, n) == Strftime(Strptime(date) + n)

\* (strptime(b) - strptime(a)).days
DaysBetween(a, b) == Strptime(b) - Strptime(a)

-----------------------------------------------------------------------------
(* Flight Search Client and Date-Sweep Flight Aggregator *)

\* What the flight provider can answer to one search.
\*   kind "transport": requests.get raises (connection error, timeout) or the
\*                     body is not JSON, so response.json() raises;
\*   kind "json":      a parsed body.  shape "scalar" is a JSON number or null,
\*                     shape "object" a JSON object whose best_flights key is
\*                     absent, null, or a list of candidate offers.
FlightResponse(kind, shape, best, flights) ==
    [kind |-> kind, shape |-> shape, best |-> best, flights |-> flights]

TransportFailure == FlightResponse("transport", "object", "absent", <<>>)

NoBestFlights == FlightResponse("json", "object", "absent", <<>>)

NullBestFlights == FlightResponse("json", "object", "null", <<>>)

ScalarBody == FlightResponse("json", "scalar", "absent", <<>>)

BestFlights(flights) == FlightResponse("json", "object", "list", flights)

\* Carrier of the k-th candidate of an upstream list: tells candidates apart.
Carrier == <<"BA", "IB", "VY", "FR", "U2">>

\* An upstream best_flights list with the given prices, in upstream rank order.
Candidates(prices) ==
    [k \in 1..Len(prices) |-> [price |-> prices[k], airline |-> Carrier[k]]]

\* search_flights: the parsed body, or {"error": str(e)} when the call raised.
search_flights(resp) ==
    IF resp.kind = "transport"
    THEN [shape |-> "object", best |-> "absent", flights |-> <<>>]
    ELSE [shape |-> resp.shape, best |-> resp.best, flights |-> resp.flights]

\* The FlightOffer built from one upstream candidate (flight_details).
flight_details(flight, search_date, search_return) ==
    [outbound_date |-> search_date,
     return_date   |-> search_return,
     price         |-> flight.price,
     airline       |-> flight.airline]

TopCandidates == 3

\* Mutant: every candidate is taken, not the top 3.
OffersOf_Uncapped(flight_data, search_date, search_return) ==
    [k \in 1..Len(flight_data.flights) |->
        flight_details(flight_data.flights[k], search_date, search_return)]

\* Mutant: the top candidates are emitted in reverse upstream order.
OffersOf_Reversed(flight_data, search_date, search_return) ==
    LET n == IF Len(flight_data.flights) < 3 THEN Len(flight_data.flights) ELSE 3
    IN  [k \in 1..n |->
            flight_details(flight_data.flights[n + 1 - k], search_date, search_return)]

\* The offers one loop iteration appends for flight_data.
OffersOf(flight_data, search_date, search_return) ==
    LET top == Take(flight_data.flights, TopCandidates)
    IN  [k \in 1..Len(top) |-> flight_details(top[k], search_date, search_return)]

\* Whether one loop iteration raises on flight_data: `"best_flights" in x` on a
\* number or null, or slicing a null best_flights.
IterationRaises(flight_data) ==
    \/ flight_data.shape = "scalar"
    \/ flight_data.best = "null"

\* The search dates of loop iteration k (0-based).
SearchDate(start_date, k) == AddDays(start_date, k)

SearchReturn(ret, k) == IF Truthy(ret) THEN AddDays(ret, k) ELSE None

\* analyze_flexible_dates on a whole vector of upstream answers, as a function:
\* the results after the first n iterations (none of which raised).
RECURSIVE SweepResults(_, _, _, _)
SweepResults(resps, start_date, ret, n) ==
    IF n = 0 THEN <<>>
    ELSE SweepResults(resps, start_date, ret, n - 1)
         \o OffersOf(search_flights(resps[n]),
                     SearchDate(start_date, n - 1), SearchReturn(ret, n - 1))

-----------------------------------------------------------------------------
(* Value Ranking Filter *)

\* x.get("price", float('inf')) of an aggregated offer: the key is always set.
PriceKey(f) == f.price

\* Stable insertion of f into a list sorted by price (sorted() is stable).
RECURSIVE InsertSorted(_, _)
InsertSorted(s, f) ==
    IF s = <<>> THEN <<f>>
    ELSE IF PriceKey(f) < PriceKey(s[Len(s)])
         THEN InsertSorted(SubSeq(s, 1, Len(s) - 1), f) \o <<s[Len(s)]>>
         ELSE s \o <<f>>

\* sorted(flight_results, key=price)
RECURSIVE SortedByPrice(_)
SortedByPrice(s) ==
    IF s = <<>> THEN <<>>
    ELSE InsertSorted(SortedByPrice(SubSeq(s, 1, Len(s) - 1)), s[Len(s)])

RECURSIVE SumPrices(_)
SumPrices(s) == IF s = <<>> THEN 0 ELSE s[1].price + SumPrices(Tail(s))

\* `if f.get("price")`: None and 0 are falsy.
HasTruthyPrice(f) == f.price /= NoPrice /\ f.price /= 0

MaxBestValue == 8

\* Position of the mean 5p/6 among the powers of two: the least m with
\* 5p < 6 * 2^m, so that 2^(m-1) <= 5p/6 < 2^m.
RECURSIVE BinadeOf(_, _)
BinadeOf(p, m) == IF 5 * p < 6 * 2^m THEN m ELSE BinadeOf(p, m + 1)

\* price <= avg_price * 1.2 in binary64 when price is exactly 1.2 times the
\* mean, i.e. avg_price is the double nearest to 5p/6.  The mean has 53
\* significant bits, its last one worth 2^(m-53); the remainder of
\* 5p * 2^(53-m) modulo 6 tells how the division was rounded:
\*   0: the mean is exact and the product is p;
\*   4: the mean is rounded up and the product is rounded back to p;
\*   2: the mean is rounded down, by a third of its last bit; the product falls
\*      short of p by 0.6 to 0.8 of 2^(m-53) and is rounded to the double just
\*      below p when p <= 2^m (doubles below p are 2^(m-53) apart), to p itself
\*      when p > 2^m (doubles around p are then 2^(m-52) apart).
AtThreshold(p) ==
    LET m == BinadeOf(p, 0)
        pow == IF (53 - m) % 2 = 1 THEN 2 ELSE 4     \* 2^(53-m) modulo 6
        r == (((5 * p) % 6) * pow) % 6
    IN  ~(r = 2 /\ p <= 2^m)

\* f.get("price") <= avg_price * 1.2 with avg_price = sum(prices) / len(prices)
\* in binary64, or 0 when prices is empty.  Away from the threshold the float
\* comparison agrees with the exact one, 10 * n * price <= 12 * sum (the
\* relative rounding error of the product is below 2^-51); on the threshold
\* the rounding of the division and of the product decides.
GoodValue(f, prices) ==
    IF prices = <<>> THEN f.price <= 0
    ELSE IF 10 * Len(prices) * f.price = 12 * SumPrices(prices)
         THEN AtThreshold(f.price)
         ELSE 10 * Len(prices) * f.price < 12 * SumPrices(prices)

\* Mutant: no early return on the empty list and an unguarded mean, so that
\* sum(prices) / len(prices) divides by zero when no offer has a truthy price.
find_best_value_flights_Unguarded(flight_results) ==
    IF \/ \E k \in 1..Len(flight_results) : flight_results[k].price = NoPrice
       \/ SelectSeq(flight_results, HasTruthyPrice) = <<>>
    THEN [raised |-> TRUE, value |-> <<>>]
    ELSE LET sorted_flights == SortedByPrice(flight_results)
             prices == SelectSeq(flight_results, HasTruthyPrice)
             best_value == SelectSeq(sorted_flights, LAMBDA f : GoodValue(f, prices))
         IN  [raised |-> FALSE, value |-> Take(best_value, MaxBestValue)]

\* find_best_value_flights.  A None price makes sorted() raise TypeError when
\* two or more offers are compared, and the <= of the filter raise otherwise.
find_best_value_flights(flight_results) ==
    IF flight_results = <<>> THEN [raised |-> FALSE, value |-> <<>>]
    ELSE IF \E k \in 1..Len(flight_results) : flight_results[k].price = NoPrice
    THEN [raised |-> TRUE, value |-> <<>>]
    ELSE LET sorted_flights == SortedByPrice(flight_results)
             prices == SelectSeq(flight_results, HasTruthyPrice)
             best_value == SelectSeq(sorted_flights, LAMBDA f : GoodValue(f, prices))
         IN  [raised |-> FALSE, value |-> Take(best_value, MaxBestValue)]

-----------------------------------------------------------------------------
(* Airport/City Resolver *)

AIRPORT_TO_CITY ==
    ("BCN" :> "Barcelona, Spain") @@ ("MAD" :> "Madrid, Spain") @@
    ("PAR" :> "Paris, France") @@ ("ROM" :> "Rome, Italy") @@
    ("AMS" :> "Amsterdam, Netherlands") @@ ("BER" :> "Berlin, Germany") @@
    ("LIS" :> "Lisbon, Portugal") @@ ("DUB" :> "Dublin, Ireland") @@
    ("VIE" :> "Vienna, Austria") @@ ("PRG" :> "Prague, Czech Republic") @@
    ("NYC" :> "New York, USA") @@ ("LAX" :> "Los Angeles, USA") @@
    ("MIA" :> "Miami, USA") @@ ("SFO" :> "San Francisco, USA") @@
    ("LAS" :> "Las Vegas, USA") @@ ("DXB" :> "Dubai, UAE") @@
    ("BKK" :> "Bangkok, Thailand") @@ ("SIN" :> "Singapore") @@
    ("TYO" :> "Tokyo, Japan") @@ ("HKG" :> "Hong Kong") @@
    ("LHR" :> "London, UK") @@ ("LGW" :> "London, UK") @@
    ("STN" :> "London, UK") @@ ("LTN" :> "London, UK") @@
    ("LCY" :> "London, UK") @@ ("MAN" :> "Manchester, UK") @@
    ("BHX" :> "Birmingham, UK") @@ ("EDI" :> "Edinburgh, UK") @@
    ("GLA" :> "Glasgow, UK") @@ ("BRS" :> "Bristol, UK") @@
    ("NCL" :> "Newcastle, UK") @@ ("LPL" :> "Liverpool, UK")

\* Mutant: a code that is not in the table resolves to a placeholder.
get_city_name_NoPassthrough(airport_code) ==
    IF airport_code \in DOMAIN city_table
    THEN city_table[airport_code]
    ELSE "Unknown"

\* AIRPORT_TO_CITY.get(airport_code, airport_code)
get_city_name(airport_code) ==
    IF airport_code \in DOMAIN city_table
    THEN city_table[airport_code]
    ELSE airport_code

-----------------------------------------------------------------------------
(* Itinerary Generator: parsed documents *)

\* A dict lookup that found no key, and a JSON null (or any value without a
\* length), where the model holds the length of a list.
AbsentKey == -2

NullValue == -1

TopKeys == {"overview", "daily_itinerary", "restaurants", "budget_summary"}

\* A restaurants value: shape "object" holds, per meal, the length of its list,
\* AbsentKey or NullValue; shape "null" is any non-object (null, list, number).
\* src tells generated content from the synthetic default.
Restaurants(shape, src, b, l, d) ==
    [shape |-> shape, src |-> src, breakfast |-> b, lunch |-> l, dinner |-> d]

\* A daily_itinerary value: shape "list" holds the day entries, shape "null" is a
\* value without a length (null, number, boolean).
DayList(shape, days) == [shape |-> shape, days |-> days]

\* The filler held for a key that is not in the document.
NoRestaurants == Restaurants("null", "absent", AbsentKey, AbsentKey, AbsentKey)

NoDayList == DayList("null", <<>>)

\* A parsed JSON object: the set of its top-level keys and their values
\* (fillers for absent keys).
Document(keys, overview, daily, restaurants, budget) ==
    [keys            |-> keys,
     overview        |-> IF "overview" \in keys THEN overview ELSE "absent",
     daily_itinerary |-> IF "daily_itinerary" \in keys THEN daily ELSE NoDayList,
     restaurants     |-> IF "restaurants" \in keys THEN restaurants ELSE NoRestaurants,
     budget_summary  |-> IF "budget_summary" \in keys THEN budget ELSE "absent"]

NoDocument == Document({}, "absent", NoDayList, NoRestaurants, "absent")

\* n day entries as the generation provider wrote them.
GeneratedDays(n) == [k \in 1..n |-> [day |-> k, theme |-> "generated"]]

DefaultPicks == 3

\* _get_default_restaurants: three placeholder picks per meal.
get_default_restaurants(city_name) ==
    Restaurants("object", "default", DefaultPicks, DefaultPicks, DefaultPicks)

\* Mutant: range(1, days) instead of range(1, days + 1).
get_default_itinerary_OffByOne(city_name, days) ==
    [day \in 1..(days - 1) |-> [day |-> day, theme |-> "default"]]

\* _get_default_itinerary: one templated entry per day in range(1, days + 1).
get_default_itinerary(city_name, days) ==
    [day \in 1..days |-> [day |-> day, theme |-> "default"]]

\* _get_fallback_itinerary
get_fallback_itinerary(city_name, days) ==
    Document(TopKeys, city_name,
             DayList("list", get_default_itinerary(city_name, days)),
             get_default_restaurants(city_name), "default")

\* What the generation provider can answer.
\*   "transport":  client.messages.create raises, or the message has no content;
\*   "unparsable": json.loads raises JSONDecodeError on the cleaned text;
\*   "nondict":    the text parses to a list, string, number or null;
\*   "dict":       the text parses to the JSON object doc.
GenResponse(kind, doc) == [kind |-> kind, doc |-> doc]

\* Mutant: a document without restaurants is handled like any other failure.
ValidateAndRepair_NoRepair(doc, city_name, days) ==
    LET daily_present == "daily_itinerary" \in doc.keys
        len_raises == daily_present /\ doc.daily_itinerary.shape = "null"
        d2 == IF ~daily_present \/ Len(doc.daily_itinerary.days) = 0
              THEN [doc EXCEPT !.keys = @ \cup {"daily_itinerary"},
                               !.daily_itinerary =
                                   DayList("list", get_default_itinerary(city_name, days))]
              ELSE doc
        print_raises == \/ d2.restaurants.shape = "null"
                        \/ d2.restaurants.breakfast = NullValue
    IN  IF len_raises \/ print_raises
        THEN [raised |-> TRUE, repaired |-> FALSE, doc |-> doc]
        ELSE [raised |-> FALSE,
              repaired |-> ~daily_present \/ Len(doc.daily_itinerary.days) = 0,
              doc |-> d2]

\* The validation / repair steps of the try block on a parsed JSON object,
\* in source order; raised tells that one of them raised (caught by the
\* `except Exception` clause), repaired that the body of one of the two `if`s
\* ran (it may assign a value equal to the one it replaces: the default
\* itinerary of a non-positive duration is the empty list).
ValidateAndRepair(doc, city_name, days) ==
    LET d1 == IF "restaurants" \notin doc.keys
              THEN [doc EXCEPT !.keys = @ \cup {"restaurants"},
                               !.restaurants = get_default_restaurants(city_name)]
              ELSE doc
        daily_present == "daily_itinerary" \in d1.keys
        \* len(itinerary_data["daily_itinerary"]) on a value without a length
        len_raises == daily_present /\ d1.daily_itinerary.shape = "null"
        d2 == IF ~daily_present \/ Len(d1.daily_itinerary.days) = 0
              THEN [d1 EXCEPT !.keys = @ \cup {"daily_itinerary"},
                              !.daily_itinerary =
                                  DayList("list", get_default_itinerary(city_name, days))]
              ELSE d1
        \* len(itinerary_data.get('restaurants', {}).get('breakfast', []))
        print_raises == \/ d2.restaurants.shape = "null"
                        \/ d2.restaurants.breakfast = NullValue
    IN  IF len_raises \/ print_raises
        THEN [raised |-> TRUE, repaired |-> FALSE, doc |-> doc]
        ELSE [raised |-> FALSE,
              repaired |-> \/ "restaurants" \notin doc.keys
                           \/ ~daily_present
                           \/ Len(d1.daily_itinerary.days) = 0,
              doc |-> d2]

\* Mutant: a parsed value that is not a JSON object is returned as it is.
create_structured_itinerary_AcceptsNonDict(city_name, days, resp) ==
    IF resp.kind \in {"transport", "unparsable"}
    THEN [path |-> "fallback", doc |-> get_fallback_itinerary(city_name, days)]
    ELSE IF resp.kind = "nondict"
    THEN [path |-> "accept", doc |-> resp.doc]
    ELSE LET v == ValidateAndRepair(resp.doc, city_name, days)
         IN  IF v.raised
             THEN [path |-> "fallback", doc |-> get_fallback_itinerary(city_name, days)]
             ELSE [path |-> IF v.repaired THEN "repair" ELSE "accept",
                   doc  |-> v.doc]

\* create_structured_itinerary from the generation call on: the document
\* returned and the terminal state of the ladder that produced it.
create_structured_itinerary(city_name, days, resp) ==
    IF resp.kind /= "dict"
    THEN [path |-> "fallback", doc |-> get_fallback_itinerary(city_name, days)]
    ELSE LET v == ValidateAndRepair(resp.doc, city_name, days)
         IN  IF v.raised
             THEN [path |-> "fallback", doc |-> get_fallback_itinerary(city_name, days)]
             ELSE [path |-> IF v.repaired THEN "repair" ELSE "accept",
                   doc  |-> v.doc]

-----------------------------------------------------------------------------
(* Accommodation Search Clients *)

\* One property of a hotel search result.  name is a string, None (JSON null)
\* or Missing.  rate_per_night / total_rate are
\* "ok" (an object with a lowest price), "missing" or "null"; description,
\* images and amenities hold a length, AbsentKey or NullValue.
Property(name, rate, total, description, images, amenities) ==
    [name |-> name, rate_per_night |-> rate, total_rate |-> total,
     description |-> description, images |-> images, amenities |-> amenities]

\* What the hotel provider can answer to the one hotel search: kind "transport"
\* (the call or response.json() raises), or a parsed body whose properties key
\* is "absent", "null" or a "list" of properties.
HotelResponse(kind, props, properties) ==
    [kind |-> kind, props |-> props, properties |-> properties]

\* search_hotels: the parsed body, or {"error": str(e)} when the call, the
\* parse or the len() of the logging line raised.
search_hotels(resp) ==
    IF resp.kind = "transport" \/ resp.props = "null"
    THEN [error |-> TRUE, has_properties |-> FALSE, properties |-> <<>>]
    ELSE [error |-> FALSE, has_properties |-> resp.props = "list",
          properties |-> resp.properties]

\* The value search_hotels is not called for (hotels is never assigned).
NoHotels == [error |-> FALSE, has_properties |-> FALSE, properties |-> <<>>]

MaxHotelOptions == 10

MaxDescription == 200

MaxImages == 3

MaxAmenities == 5

\* hotel.get(key, {}).get("lowest", "N/A")
LowestOf(rate) == IF rate = "ok" THEN "lowest" ELSE "N/A"

\* hotel.get(key, default)[:n] on a length
Truncated(len, n) == IF len = AbsentKey THEN 0 ELSE Min(len, n)

\* Whether building the option of one property raises: .get on a null rate,
\* or slicing a null description / images / amenities.
OptionRaises(hotel) ==
    \/ hotel.rate_per_night = "null"
    \/ hotel.total_rate = "null"
    \/ hotel.description = NullValue
    \/ hotel.images = NullValue
    \/ hotel.amenities = NullValue

\* One entry of hotel_options.
HotelOption(hotel) ==
    [name            |-> IF hotel.name = Missing THEN "N/A" ELSE hotel.name,
     price_per_night |-> LowestOf(hotel.rate_per_night),
     total_price     |-> LowestOf(hotel.total_rate),
     description     |-> Truncated(hotel.description, MaxDescription),
     images          |-> Truncated(hotel.images, MaxImages),
     amenities       |-> Truncated(hotel.amenities, MaxAmenities),
     type            |-> "hotel"]

\* The hotel normalization loop of create_itinerary.
HotelOptions(hotels_result) ==
    LET top == IF hotels_result.has_properties
               THEN Take(hotels_result.properties, MaxHotelOptions) ELSE <<>>
    IN  [raised |-> \E k \in 1..Len(top) : OptionRaises(top[k]),
         value  |-> [k \in 1..Len(top) |-> HotelOption(top[k])]]

\* What the web search provider can answer to the one rental search: kind
\* "transport", or a parsed body whose organic_results key is "absent" or a
\* "list" of results, each with a title (a string, None or Missing) and a link
\* that is an airbnb link, another link, missing, or null.
WebResponse(kind, organic, results) ==
    [kind |-> kind, organic |-> organic, results |-> results]

\* No rental search was made.
NoWeb == WebResponse("none", "absent", <<>>)

MaxOrganic == 8

NightlyEstimate == 75

PropertyType == "Entire home/Private room"

\* search_airbnb: the listings kept; every failure inside the try block
\* (transport, parse, .lower() on a null link) yields the empty list.  The
\* snippet a listing carries as its description is not modelled.
search_airbnb(resp, check_in, check_out) ==
    LET nights == DaysBetween(check_in, check_out)
        top == Take(resp.results, MaxOrganic)
        kept == SelectSeq(top, LAMBDA r : r.link = "airbnb")
    IN  IF \/ resp.kind = "transport"
           \/ resp.organic = "absent"
           \/ \E k \in 1..Len(top) : top[k].link = "null"
        THEN <<>>
        ELSE [k \in 1..Len(kept) |->
                 [name            |-> IF kept[k].title = Missing
                                      THEN "Airbnb Listing" ELSE kept[k].title,
                  link            |-> kept[k].link,
                  price_per_night |-> "50-150",
                  total_price     |-> ToString(nights * NightlyEstimate),
                  type            |-> PropertyType]]

\* One entry of airbnb_options: the copy create_itinerary makes of a listing.
AirbnbOption(listing) ==
    [name            |-> listing.name,
     price_per_night |-> listing.price_per_night,
     total_price     |-> listing.total_price,
     link            |-> listing.link,
     type            |-> "airbnb",
     property_type   |-> listing.type]

\* The rental normalization loop of create_itinerary.
AirbnbOptions(airbnb_listings) ==
    [k \in 1..Len(airbnb_listings) |-> AirbnbOption(airbnb_listings[k])]

-----------------------------------------------------------------------------
(* Request Coordinator: create_itinerary *)

\* A numeric request field that is not in the body (data.get gives None or
\* the default).
Unset == -1

DefaultBudget == 1000

DefaultDuration == 5

DaysRange == 7

Request(origin, destination, outbound, ret, duration, budget, accommodation) ==
    [origin |-> origin, destination |-> destination, outbound_date |-> outbound,
     return_date |-> ret, duration_days |-> duration, budget |-> budget,
     accommodation_type |-> accommodation]

NoRequest == Request(None, None, None, None, Unset, Unset, Missing)

\* data.get('budget', 1000)
BudgetOf(req) == IF req.budget = Unset THEN DefaultBudget ELSE req.budget

\* data.get('accommodation_type', 'hotel'): "hotel" for a body without the
\* key, None for a body that gives it as null.
AccommodationOf(req) ==
    IF req.accommodation_type = Missing THEN "hotel" ELSE req.accommodation_type

\* Mutant: the destination is not among the fields checked.
MissingRequired_NoDestination(req) ==
    ~(Truthy(req.origin) /\ Truthy(req.outbound_date))

\* not all([destination, origin, outbound_date])
MissingRequired(req) ==
    ~(Truthy(req.destination) /\ Truthy(req.origin) /\ Truthy(req.outbound_date))

\* Mutant: an explicit duration field takes precedence over the return date.
TripDuration_FieldFirst(req) ==
    IF req.duration_days /= -1 THEN req.duration_days
    ELSE IF req.return_date \notin {"None", ""}
    THEN DaysBetween(req.outbound_date, req.return_date)
    ELSE 5

\* duration_days of a validated request
TripDuration(req) ==
    IF Truthy(req.return_date)
    THEN DaysBetween(req.outbound_date, req.return_date)
    ELSE IF req.duration_days = Unset THEN DefaultDuration ELSE req.duration_days

\* return_date of a validated request: given, or outbound date plus duration
TripReturn(req) ==
    IF Truthy(req.return_date)
    THEN req.return_date
    ELSE AddDays(req.outbound_date, TripDuration(req))

WantsHotels(req) == AccommodationOf(req) \in {"hotel", "mixed"}

WantsRentals(req) == AccommodationOf(req) \in {"airbnb", "mixed"}

\* The stage that follows the ranking / the hotel block in the handler.
StageAfterRank(req) ==
    IF WantsHotels(req) THEN "hotels"
    ELSE IF WantsRentals(req) THEN "airbnb" ELSE "generate"

StageAfterHotels(req) == IF WantsRentals(req) THEN "airbnb" ELSE "generate"

\* One upstream call, as logged in calls.
Call(api, q, from, to, days, budget, digest) ==
    [api |-> api, q |-> q, from |-> from, to |-> to, days |-> days,
     budget |-> budget, digest |-> digest]

FlightCall(req, search_date, search_return) ==
    Call("flights", req.destination, search_date, search_return, 0, 0, <<>>)

\* best_flights[0].get('price', 0) if best_flights else 0
FlightCost(best) == IF best = <<>> THEN 0 ELSE best[1].price

\* Mutant: the remaining budget is floored at 0.
RemainingBudget_Clamped(budget, flight_cost) ==
    IF budget - flight_cost < 0 THEN 0 ELSE budget - flight_cost

\* remaining_budget = budget - flight_cost
RemainingBudget(budget, flight_cost) == budget - flight_cost

\* The lodging digest of the prompt: name and nightly price of the top 3.
DigestSize == 3

HotelDigest(hotels_arg) ==
    LET top == IF hotels_arg.has_properties
               THEN Take(hotels_arg.properties, DigestSize) ELSE <<>>
    IN  [raised |-> \E k \in 1..Len(top) : top[k].rate_per_night = "null",
         value  |-> [k \in 1..Len(top) |->
                        [name  |-> IF top[k].name = Missing THEN "N/A" ELSE top[k].name,
                         price |-> LowestOf(top[k].rate_per_night)]]]

\* response_data (lines 627-641); keywords are not modelled.
ResponseData(dest, total, days, outbound, ret, flights, cost, hotel_opts, airbnb_opts, mode, remaining, itin) ==
    [destination             |-> dest,
     total_budget            |-> total,
     trip_duration           |-> days,
     outbound_date           |-> outbound,
     return_date             |-> ret,
     flight_options          |-> flights,
     recommended_flight_cost |-> cost,
     hotel_options           |-> hotel_opts,
     airbnb_options          |-> airbnb_opts,
     accommodation_type      |-> mode,
     remaining_budget        |-> remaining,
     itinerary               |-> itin]

\* No response payload was built.
NoResponse ==
    ResponseData(None, 0, 0, None, None, <<>>, 0, <<>>, <<>>, None, 0,
                 Document({}, "absent", DayList("null", <<>>),
                          Restaurants("null", "absent", AbsentKey, AbsentKey, AbsentKey),
                          "absent"))

-----------------------------------------------------------------------------
(* Inputs: requests and upstream answers, drawn from bounded sets *)

OutboundDay == "2025-01-28"

DayBefore == "2025-01-27"

DayAfter == "2025-01-30"

\* The explicit duration_days a request may carry.
DurationField == 3

\* Requests that pass validation.
ValidRequests ==
    {Request("LHR", "BCN", OutboundDay, r, dd, b, a) :
        r \in {None, DayBefore, OutboundDay, DayAfter},
        dd \in {Unset, DurationField},
        b \in {Unset, 50},
        a \in {Missing, None, "airbnb", "mixed", "rental"}}

\* Requests with a required field missing (None) or empty.
InvalidRequests ==
    {req \in {Request(o, d, ob, None, Unset, Unset, a) :
                 o \in {None, "", "LHR"}, d \in {None, "", "BCN"},
                 ob \in {None, "", OutboundDay}, a \in {Missing, "mixed"}} :
        \/ ~Truthy(req.origin)
        \/ ~Truthy(req.destination)
        \/ ~Truthy(req.outbound_date)}

\* Codes that are not in the table (the lookup is case-sensitive).
UnknownCodes == {"ZZZ", "bcn", "London"}

\* Rejected requests (no origin) whose destination ranges over every code of
\* the table and over unknown codes: the handler resolves the destination
\* (line 543) before it validates.
ResolverRequests ==
    {Request(None, code, OutboundDay, None, Unset, Unset, Missing) :
        code \in DOMAIN AIRPORT_TO_CITY \cup UnknownCodes}

\* With a return date the duration field is ignored: one such request suffices.
Requests ==
    InvalidRequests \cup ResolverRequests \cup
    {req \in ValidRequests :
        (Truthy(req.return_date) /\ req.duration_days /= Unset)
            => req.return_date = DayAfter}

\* Flight answers of the coordinator's sweep.
CoordFlightResponses ==
    {TransportFailure, NullBestFlights,
     BestFlights(Candidates(<<300, 100, 200, 50>>)),
     BestFlights(Candidates(<<NoPrice>>))}

\* Flight answers of the aggregator studied alone: every failure shape, and
\* lists of 0..MaxCandidates candidates.
MaxCandidates == 4

MaxSweep == 3

RankedPrices == <<300, 100, NoPrice, 200, 50, 70>>

SweepFlightResponses ==
    {TransportFailure, NoBestFlights, NullBestFlights, ScalarBody}
    \cup {BestFlights(Candidates(SubSeq(RankedPrices, 1, n))) : n \in 0..MaxCandidates}

GoodProperty == Property("Hotel Arts", "ok", "ok", 250, 4, 6)

BareProperty == Property(Missing, "missing", "missing", AbsentKey, AbsentKey, AbsentKey)

NullNameProperty == Property(None, "ok", "missing", AbsentKey, AbsentKey, AbsentKey)

NullRateProperty == Property("Hostal Sol", "null", "ok", 20, 1, 1)

CoordHotelResponses ==
    {HotelResponse("transport", "absent", <<>>),
     HotelResponse("json", "absent", <<>>),
     HotelResponse("json", "list", <<GoodProperty, BareProperty, NullNameProperty>>),
     HotelResponse("json", "list", <<NullRateProperty>>)}

CoordWebResponses ==
    {WebResponse("transport", "absent", <<>>),
     WebResponse("json", "absent", <<>>),
     WebResponse("json", "list",
                 <<[title |-> "Loft", link |-> "airbnb"],
                   [title |-> "Blog", link |-> "other"],
                   [title |-> Missing, link |-> "airbnb"],
                   [title |-> None, link |-> "airbnb"]>>)}

\* Generation answers: every document shape up to the bounds.
MaxDays == 2

MaxPicks == 1

MealValues == {AbsentKey, NullValue} \cup 0..MaxPicks

RestaurantValues ==
    {Restaurants("null", "generated", AbsentKey, AbsentKey, AbsentKey)}
    \cup {Restaurants("object", "generated", b, l, d) :
             b \in MealValues, l \in MealValues, d \in MealValues}

DailyValues ==
    {DayList("null", <<>>)} \cup {DayList("list", GeneratedDays(n)) : n \in 0..MaxDays}

GenDocuments ==
    {Document(keys, "generated", daily, rest, "generated") :
        keys \in SUBSET TopKeys, daily \in DailyValues, rest \in RestaurantValues}

GenResponses ==
    {GenResponse("transport", NoDocument), GenResponse("unparsable", NoDocument),
     GenResponse("nondict", NoDocument)}
    \cup {GenResponse("dict", doc) : doc \in GenDocuments}

FullDocument ==
    Document(TopKeys, "generated", DayList("list", GeneratedDays(MaxDays)),
             Restaurants("object", "generated", MaxPicks, MaxPicks, MaxPicks),
             "generated")

CoordGenResponses ==
    {GenResponse("transport", NoDocument),
     GenResponse("unparsable", NoDocument),
     GenResponse("dict", FullDocument),
     GenResponse("dict", Document(TopKeys \ {"restaurants"}, "generated",
                                  FullDocument.daily_itinerary, NoRestaurants,
                                  "generated")),
     GenResponse("dict", Document(TopKeys, "generated",
                                  FullDocument.daily_itinerary,
                                  Restaurants("object", "generated",
                                              AbsentKey, AbsentKey, AbsentKey),
                                  "generated")),
     GenResponse("dict", Document(TopKeys, "generated",
                                  FullDocument.daily_itinerary,
                                  Restaurants("object", "generated",
                                              MaxPicks, NullValue, MaxPicks),
                                  "generated"))}

-----------------------------------------------------------------------------
(* State machine *)

\* Everything but pc and request, before the handler has run.
Blank ==
    /\ status = 0
    /\ destination_city = None
    /\ duration_days = 0
    /\ return_date = None
    /\ days_range = 0
    /\ i = 0
    /\ all_flights = <<>>
    /\ responses = <<>>
    /\ calls = <<>>
    /\ best_flights = <<>>
    /\ hotels = NoHotels
    /\ hotel_options = <<>>
    /\ airbnb_options = <<>>
    /\ web = NoWeb
    /\ gen = GenResponse("none", NoDocument)
    /\ path = ""
    /\ itinerary = NoDocument
    /\ response = NoResponse
    /\ raised = ""

Init ==
    /\ city_table = AIRPORT_TO_CITY
    /\ pc = "idle"
    /\ request = NoRequest
    /\ Blank

\* create_itinerary from the request to the duration (lines 532-563): reject
\* with 400, or derive duration and return date and enter the sweep.
Receive ==
    /\ pc = "idle"
    /\ \E req \in Requests :
        /\ request' = req
        /\ destination_city' = get_city_name(req.destination)
        /\ IF MissingRequired(req)
           THEN /\ status' = 400
                /\ pc' = "done"
                /\ UNCHANGED <<duration_days, return_date, days_range>>
           ELSE /\ status' = 0
                /\ pc' = "sweep"
                /\ duration_days' = TripDuration(req)
                /\ return_date' = TripReturn(req)
                /\ days_range' = DaysRange
    /\ UNCHANGED <<i, all_flights, responses, calls, best_flights, hotels,
                   hotel_options, airbnb_options, web, gen, path, itinerary,
                   response, raised>>
    /\ UNCHANGED city_table

\* One iteration of the loop of analyze_flexible_dates: one flight search and
\* the normalization of its top candidates.
SweepStep(alphabet) ==
    /\ pc = "sweep"
    /\ i < days_range
    /\ \E resp \in alphabet :
        LET search_date == SearchDate(request.outbound_date, i)
            search_return == SearchReturn(return_date, i)
            flight_data == search_flights(resp)
        IN  /\ calls' = Append(calls, FlightCall(request, search_date, search_return))
            /\ responses' = Append(responses, resp)
            /\ IF IterationRaises(flight_data)
               THEN /\ raised' = "analyze_flexible_dates"
                    /\ pc' = "raised"
                    /\ UNCHANGED <<i, all_flights>>
               ELSE /\ all_flights' =
                          all_flights \o OffersOf(flight_data, search_date, search_return)
                    /\ i' = i + 1
                    /\ pc' = IF i + 1 < days_range THEN "sweep" ELSE "rank"
                    /\ UNCHANGED raised
    /\ UNCHANGED <<request, status, duration_days, return_date, days_range,
                   best_flights, hotels, hotel_options, airbnb_options, web, gen,
                   path, itinerary, response>>
    /\ UNCHANGED <<city_table, destination_city>>

CoordSweep == SweepStep(CoordFlightResponses)

\* best_flights = agent.find_best_value_flights(all_flights)
RankFlights ==
    /\ pc = "rank"
    /\ LET r == find_best_value_flights(all_flights)
       IN  IF r.raised
           THEN /\ raised' = "find_best_value_flights"
                /\ pc' = "raised"
                /\ UNCHANGED best_flights
           ELSE /\ best_flights' = r.value
                /\ pc' = StageAfterRank(request)
                /\ UNCHANGED raised
    /\ UNCHANGED <<request, status, duration_days, return_date, days_range, i,
                   all_flights, responses, calls, hotels, hotel_options,
                   airbnb_options, web, gen, path, itinerary, response>>
    /\ UNCHANGED <<city_table, destination_city>>

\* The hotel block of create_itinerary: one hotel search and its normalization.
SearchHotels ==
    /\ pc = "hotels"
    /\ \E resp \in CoordHotelResponses :
        LET result == search_hotels(resp)
            options == HotelOptions(result)
        IN  /\ calls' = Append(calls,
                   Call("hotels", get_city_name(request.destination),
                        request.outbound_date, return_date, 0, 0, <<>>))
            /\ hotels' = result
            /\ IF options.raised
               THEN /\ raised' = "create_itinerary"
                    /\ pc' = "raised"
                    /\ UNCHANGED hotel_options
               ELSE /\ hotel_options' = options.value
                    /\ pc' = StageAfterHotels(request)
                    /\ UNCHANGED raised
    /\ UNCHANGED <<request, status, duration_days, return_date, days_range, i,
                   all_flights, responses, best_flights, airbnb_options, web, gen,
                   path, itinerary, response>>
    /\ UNCHANGED <<city_table, destination_city>>

\* The rental block of create_itinerary: one web search, listings kept.
SearchAirbnb ==
    /\ pc = "airbnb"
    /\ \E resp \in CoordWebResponses :
        /\ calls' = Append(calls,
               Call("web", get_city_name(request.destination),
                    request.outbound_date, return_date, 0, 0, <<>>))
        /\ web' = resp
        /\ airbnb_options' =
               AirbnbOptions(search_airbnb(resp, request.outbound_date, return_date))
    /\ pc' = "generate"
    /\ UNCHANGED <<request, status, duration_days, return_date, days_range, i,
                   all_flights, responses, best_flights, hotels, hotel_options,
                   gen, path, itinerary, response, raised>>
    /\ UNCHANGED <<city_table, destination_city>>

\* The summary lines printed once the generator has returned (lines 622-625):
\* len() of each meal list and of the day list of the returned document.  They
\* run outside any try block: a restaurants value that is no object, or a meal
\* list or day list without a length (null, number), raises.
SummaryRaises(doc) ==
    \/ "restaurants" \in doc.keys /\ doc.restaurants.shape = "null"
    \/ "restaurants" \in doc.keys /\ doc.restaurants.breakfast = NullValue
    \/ "restaurants" \in doc.keys /\ doc.restaurants.lunch = NullValue
    \/ "restaurants" \in doc.keys /\ doc.restaurants.dinner = NullValue
    \/ "daily_itinerary" \in doc.keys /\ doc.daily_itinerary.shape = "null"

\* The rest of create_itinerary (lines 606-645): costs, the one generation
\* call with its repair / fallback ladder, the summary lines and the 200
\* answer.
Generate(alphabet) ==
    /\ pc = "generate"
    /\ LET flight_cost == FlightCost(best_flights)
           remaining_budget == RemainingBudget(BudgetOf(request), flight_cost)
           digest == HotelDigest(IF WantsHotels(request) THEN hotels ELSE NoHotels)
           city_name == get_city_name(request.destination)
       IN  IF digest.raised
           THEN /\ raised' = "create_structured_itinerary"
                /\ pc' = "raised"
                /\ UNCHANGED <<calls, gen, path, itinerary, response, status>>
           ELSE \E resp \in alphabet :
                LET result == create_structured_itinerary(city_name, duration_days, resp)
                IN  /\ calls' = Append(calls,
                           Call("generate", city_name, None, None, duration_days,
                                remaining_budget, digest.value))
                    /\ gen' = resp
                    /\ path' = result.path
                    /\ itinerary' = result.doc
                    /\ IF SummaryRaises(result.doc)
                       THEN /\ raised' = "create_itinerary"
                            /\ pc' = "raised"
                            /\ UNCHANGED <<response, status>>
                       ELSE /\ response' =
                                   ResponseData(destination_city, BudgetOf(request),
                                                duration_days, request.outbound_date,
                                                return_date, best_flights, flight_cost,
                                                hotel_options, airbnb_options,
                                                AccommodationOf(request),
                                                remaining_budget, result.doc)
                            /\ status' = 200
                            /\ pc' = "done"
                            /\ UNCHANGED raised
    /\ UNCHANGED <<request, duration_days, return_date, days_range, i,
                   all_flights, responses, best_flights, hotels, hotel_options,
                   airbnb_options, web>>
    /\ UNCHANGED <<city_table, destination_city>>

CoordGenerate == Generate(CoordGenResponses)

\* An exception no handler caught: the framework answers 500.
Abort ==
    /\ pc = "raised"
    /\ status' = 500
    /\ pc' = "done"
    /\ UNCHANGED <<request, duration_days, return_date, days_range, i,
                   all_flights, responses, calls, best_flights, hotels,
                   hotel_options, airbnb_options, web, gen, path, itinerary,
                   response, raised>>
    /\ UNCHANGED <<city_table, destination_city>>

Next ==
    \/ Receive
    \/ CoordSweep
    \/ RankFlights
    \/ SearchHotels
    \/ SearchAirbnb
    \/ CoordGenerate
    \/ Abort

Spec == Init /\ [][Next]_vars

-----------------------------------------------------------------------------
(* The aggregator alone: analyze_flexible_dates for every sweep width up to   *)
(* MaxSweep, with and without a return date, over every failure shape.        *)

SweepRequest == Request("LHR", "BCN", OutboundDay, None, Unset, Unset, Missing)

InitSweep ==
    /\ city_table = AIRPORT_TO_CITY
    /\ request = SweepRequest
    /\ destination_city = get_city_name(request.destination)
    /\ status = 0
    /\ duration_days = 0
    /\ return_date \in {None, DayAfter}
    /\ days_range \in 0..MaxSweep
    /\ pc = IF days_range = 0 THEN "rank" ELSE "sweep"
    /\ i = 0
    /\ all_flights = <<>>
    /\ responses = <<>>
    /\ calls = <<>>
    /\ best_flights = <<>>
    /\ hotels = NoHotels
    /\ hotel_options = <<>>
    /\ airbnb_options = <<>>
    /\ web = NoWeb
    /\ gen = GenResponse("none", NoDocument)
    /\ path = ""
    /\ itinerary = NoDocument
    /\ response = NoResponse
    /\ raised = ""

FnSweep == SweepStep(SweepFlightResponses)

NextSweep == FnSweep

SpecSweep == InitSweep /\ [][NextSweep]_vars

-----------------------------------------------------------------------------
(* Claims about the date-sweep aggregator (checked under SpecSweep) *)

\* A flight search that succeeded: a parsed answer listing candidates.
Successful(resp) ==
    resp.kind = "json" /\ resp.shape = "object" /\ resp.best = "list"

\* A flight search that failed cleanly: transport error, timeout, non-JSON body.
Failed(resp) == resp.kind = "transport"

\* An answer that parsed but has not the expected shape.
Malformed(resp) ==
    resp.kind = "json" /\ (resp.shape = "scalar" \/ resp.best = "null")

NumSuccessful(resps) == Cardinality({k \in 1..Len(resps) : Successful(resps[k])})

RECURSIVE ListedUpTo(_, _)
ListedUpTo(resps, cap) ==
    IF resps = <<>> THEN 0
    ELSE (IF Successful(resps[1]) THEN Min(cap, Len(resps[1].flights)) ELSE 0)
         + ListedUpTo(Tail(resps), cap)

OnlySuccessOrFailure ==
    \A k \in 1..Len(responses) : Successful(responses[k]) \/ Failed(responses[k])

\* C3 as stated: for every pattern of success and failure of the flight
\* searches, the aggregator does not raise and returns exactly 3 offers per
\* successful search.
C3_Original ==
    OnlySuccessOrFailure =>
        /\ pc /= "raised"
        /\ pc = "rank" => Len(all_flights) = 3 * NumSuccessful(responses)

\* C3 amended: for every pattern of clean failures and well-formed answers the
\* aggregator does not raise, and the number of offers is the sum over the
\* successful searches of min(3, candidates listed), hence at most 3 per
\* successful search; it raises only on an answer that is malformed.
C3_OfferCount ==
    /\ pc /= "raised" =>
          /\ Len(all_flights) = ListedUpTo(responses, 3)
          /\ Len(all_flights) <= 3 * NumSuccessful(responses)
    /\ pc = "raised" => Malformed(responses[Len(responses)])
    /\ OnlySuccessOrFailure => pc /= "raised"

\* A returned sweep of three searches: one failed, one listing more than 3
\* candidates, one listing fewer.
C3_Witness ==
    /\ pc = "rank"
    /\ Len(responses) = 3
    /\ Failed(responses[1])
    /\ Successful(responses[2]) /\ Len(responses[2].flights) > 3
    /\ Successful(responses[3]) /\ Len(responses[3].flights) \in 1..2
    /\ Len(all_flights) = 3 + Len(responses[3].flights)

\* C4 as stated: the sweep issues exactly one search per offset, with outbound
\* date start+i and return date returnStart+i, and no failed, timed-out or
\* malformed answer aborts it.
C4_Claim ==
    /\ pc /= "raised"
    /\ \A k \in 1..Len(calls) :
          /\ calls[k].from = AddDays(request.outbound_date, k - 1)
          /\ calls[k].to = IF return_date = None THEN None
                           ELSE AddDays(return_date, k - 1)
    /\ pc = "rank" => Len(calls) = days_range

-----------------------------------------------------------------------------
(* The ranking filter alone: find_best_value_flights on the offers the         *)
(* aggregator builds from every price sequence up to MaxOffers, and on runs    *)
(* longer than the output cap.                                                 *)

MaxOffers == 4

RankPrices == {NoPrice, 0, 100, 1000}

LongRun == [k \in 1..(MaxBestValue + 1) |-> 100]

\* Price sequences holding an offer priced exactly 1.2 times the mean: the
\* mean exact (6 of 4, 6, 5), rounded up (2 of 2, 2, 1), rounded down and the
\* offer lost (14, 22, 1654), rounded down and the offer kept (34).
ThresholdSeqs ==
    {<<4, 6, 5>>, <<2, 2, 1>>, <<1, 14, 20>>, <<1, 20, 14>>, <<1, 22, 32>>,
     <<1949, 1654, 532>>, <<34, 34, 17>>}

RankPriceSeqs ==
    SeqsUpTo(RankPrices, MaxOffers)
    \cup ThresholdSeqs
    \cup {pre \o LongRun \o post :
             pre \in SeqsUpTo({50, 1000}, 1), post \in SeqsUpTo({50, 1000}, 1)}

\* The sweep of Len(ps) searches, each listing one candidate priced ps[k].
OneCandidateSweep(ps) ==
    [k \in 1..Len(ps) |-> BestFlights(<<[price |-> ps[k], airline |-> Carrier[1]]>>)]

InitRank ==
    /\ city_table = AIRPORT_TO_CITY
    /\ request = SweepRequest
    /\ destination_city = get_city_name(request.destination)
    /\ status = 0
    /\ duration_days = 0
    /\ return_date = DayAfter
    /\ \E ps \in RankPriceSeqs :
        /\ days_range = Len(ps)
        /\ i = Len(ps)
        /\ responses = OneCandidateSweep(ps)
        /\ all_flights = SweepResults(OneCandidateSweep(ps), OutboundDay, DayAfter, Len(ps))
        /\ calls = [k \in 1..Len(ps) |->
                       FlightCall(SweepRequest, SearchDate(OutboundDay, k - 1),
                                  SearchReturn(DayAfter, k - 1))]
    /\ pc = "rank"
    /\ best_flights = <<>>
    /\ hotels = NoHotels
    /\ hotel_options = <<>>
    /\ airbnb_options = <<>>
    /\ web = NoWeb
    /\ gen = GenResponse("none", NoDocument)
    /\ path = ""
    /\ itinerary = NoDocument
    /\ response = NoResponse
    /\ raised = ""

NextRank == RankFlights

SpecRank == InitRank /\ [][NextRank]_vars

-----------------------------------------------------------------------------
(* Claims about the value ranking filter (checked under SpecRank) *)

Range(seq) == {seq[k] : k \in 1..Len(seq)}

Ranked == pc /= "rank"

AllPriced(offers) == \A k \in 1..Len(offers) : offers[k].price /= NoPrice

AscendingByPrice(offers) ==
    \A j \in 1..Len(offers) : \A k \in j..Len(offers) : offers[j].price <= offers[k].price

\* price <= 1.2 * mean, the mean taken over every offer of the input
AtMostMeanTimes12(f, offers) == 10 * Len(offers) * f.price <= 12 * SumPrices(offers)

Qualifying(offers) == {f \in Range(offers) : AtMostMeanTimes12(f, offers)}

\* C5 as stated: when every offer carries a price, the output is exactly the
\* offers priced at most 1.2 times the mean of the prices, in ascending price
\* order, cut to the first 8.
C5_Claim ==
    (Ranked /\ all_flights /= <<>> /\ AllPriced(all_flights)) =>
        /\ raised = ""
        /\ AscendingByPrice(best_flights)
        /\ Range(best_flights) \subseteq Qualifying(all_flights)
        /\ Cardinality(Range(best_flights)) = Len(best_flights)
        /\ Len(best_flights) = Min(8, Cardinality(Qualifying(all_flights)))
        /\ \A f \in Qualifying(all_flights) \ Range(best_flights) :
              \A k \in 1..Len(best_flights) : best_flights[k].price <= f.price

\* C6 as stated: on aggregated offers of which some or all lack a price the
\* filter does not raise, no offer without a price is in the output, and the
\* output is empty when every offer lacks a price.
C6_Claim ==
    (Ranked /\ ~AllPriced(all_flights)) =>
        /\ raised = ""
        /\ AllPriced(best_flights)
        /\ (\A k \in 1..Len(all_flights) : all_flights[k].price = NoPrice)
              => best_flights = <<>>

\* C7: on an empty sequence of offers the filter returns the empty sequence
\* and does not raise.
C7_EmptyInput ==
    (Ranked /\ all_flights = <<>>) =>
        /\ raised = ""
        /\ pc = StageAfterRank(request)
        /\ best_flights = <<>>

\* The filter has run on the empty sequence.
C7_Witness ==
    /\ pc = StageAfterRank(request)
    /\ all_flights = <<>>
    /\ best_flights = <<>>
    /\ raised = ""

-----------------------------------------------------------------------------
(* The generator alone: the coordinator from the generation call on, for every *)
(* duration a validated request yields and every generation answer.  The start *)
(* is the handler's state after a sweep whose seven searches all failed, for a *)
(* request whose accommodation mode selects no search.                         *)

GenRequests ==
    {req \in Requests :
        /\ req \in ValidRequests
        /\ req.accommodation_type = "rental"
        /\ req.budget = Unset}

InitGen ==
    /\ city_table = AIRPORT_TO_CITY
    /\ request \in GenRequests
    /\ destination_city = get_city_name(request.destination)
    /\ status = 0
    /\ duration_days = TripDuration(request)
    /\ return_date = TripReturn(request)
    /\ days_range = DaysRange
    /\ i = DaysRange
    /\ all_flights = <<>>
    /\ responses = [k \in 1..DaysRange |-> TransportFailure]
    /\ calls = [k \in 1..DaysRange |->
                   FlightCall(request, SearchDate(request.outbound_date, k - 1),
                              SearchReturn(return_date, k - 1))]
    /\ pc = "generate"
    /\ best_flights = <<>>
    /\ hotels = NoHotels
    /\ hotel_options = <<>>
    /\ airbnb_options = <<>>
    /\ web = NoWeb
    /\ gen = GenResponse("none", NoDocument)
    /\ path = ""
    /\ itinerary = NoDocument
    /\ response = NoResponse
    /\ raised = ""

FnGenerate == Generate(GenResponses)

NextGen == FnGenerate

SpecGen == InitGen /\ [][NextGen]_vars

-----------------------------------------------------------------------------
(* Claims about the itinerary generator *)

Generated == pc = "done" /\ status = 200

\* A restaurants block that is the synthetic default: an object with
\* non-empty breakfast, lunch and dinner lists of placeholder picks.
IsDefaultRestaurants(r) ==
    /\ r.shape = "object" /\ r.src = "default"
    /\ r.breakfast >= 1 /\ r.lunch >= 1 /\ r.dinner >= 1

\* The full fallback: every top-level field is synthetic.
IsFullFallback(doc) ==
    /\ doc.keys = TopKeys
    /\ doc.overview /= "generated" /\ doc.budget_summary = "default"
    /\ IsDefaultRestaurants(doc.restaurants)
    /\ doc.daily_itinerary.shape = "list"
    /\ \A k \in 1..Len(doc.daily_itinerary.days) :
          doc.daily_itinerary.days[k].theme = "default"

MissingRestaurants == gen.kind = "dict" /\ "restaurants" \notin gen.doc.keys

Kept(key) == key \in itinerary.keys /\ itinerary[key] = gen.doc[key]

\* C8 as stated: a parsed document without restaurants comes back with the
\* default restaurants block and every other top-level field unchanged, and is
\* not replaced by the full fallback.
C8_Original ==
    (Generated /\ MissingRestaurants) =>
        /\ path /= "fallback"
        /\ IsDefaultRestaurants(itinerary.restaurants)
        /\ \A key \in gen.doc.keys : Kept(key)

\* C8 amended: a parsed document without restaurants comes back with the
\* default restaurants block; unless its daily_itinerary is present without a
\* length (null, number), it is repaired, not replaced: overview and
\* budget_summary are kept unchanged, a non-empty daily_itinerary is kept
\* unchanged, and an empty or absent daily_itinerary is replaced by the default
\* day list.  With a daily_itinerary that has no length the full fallback is
\* returned.
C8_RepairRestaurants ==
    (Generated /\ MissingRestaurants) =>
        /\ IsDefaultRestaurants(itinerary.restaurants)
        /\ IF "daily_itinerary" \in gen.doc.keys /\ gen.doc.daily_itinerary.shape = "null"
           THEN path = "fallback" /\ IsFullFallback(itinerary)
           ELSE /\ path = "repair"
                /\ itinerary.keys = gen.doc.keys \cup {"restaurants", "daily_itinerary"}
                /\ \A key \in gen.doc.keys \ {"daily_itinerary"} : Kept(key)
                /\ IF "daily_itinerary" \in gen.doc.keys
                      /\ gen.doc.daily_itinerary.days /= <<>>
                   THEN Kept("daily_itinerary")
                   ELSE /\ itinerary.daily_itinerary.shape = "list"
                        /\ Len(itinerary.daily_itinerary.days) = Max(0, duration_days)
                        /\ \A k \in 1..Len(itinerary.daily_itinerary.days) :
                              itinerary.daily_itinerary.days[k].theme = "default"

\* A repaired document: restaurants were missing, the generated overview,
\* budget summary and day list are those of the answer.
C8_Witness ==
    /\ Generated /\ MissingRestaurants
    /\ gen.doc.keys = TopKeys \ {"restaurants"}
    /\ gen.doc.daily_itinerary.days /= <<>>
    /\ path = "repair"
    /\ itinerary.overview = "generated"
    /\ itinerary.daily_itinerary = gen.doc.daily_itinerary
    /\ IsDefaultRestaurants(itinerary.restaurants)

GenerationFailed == gen.kind \in {"transport", "unparsable"}

MealsNonEmpty(r) ==
    r.shape = "object" /\ r.breakfast >= 1 /\ r.lunch >= 1 /\ r.dinner >= 1

\* C9 as stated: after a transport failure or an unparsable answer the
\* document is the full fallback, its daily_itinerary has exactly
\* duration_days entries, whatever duration the coordinator passes, and every
\* meal list has at least one entry.
C9_Original ==
    (Generated /\ GenerationFailed) =>
        /\ path = "fallback"
        /\ IsFullFallback(itinerary)
        /\ Len(itinerary.daily_itinerary.days) = duration_days
        /\ MealsNonEmpty(itinerary.restaurants)

\* C9 amended: the daily_itinerary of the fallback has duration_days entries
\* when the duration is not negative and none when it is negative (a return
\* date before the outbound date); the rest as stated.
C9_FallbackShape ==
    (Generated /\ GenerationFailed) =>
        /\ path = "fallback"
        /\ IsFullFallback(itinerary)
        /\ duration_days >= 0 => Len(itinerary.daily_itinerary.days) = duration_days
        /\ duration_days < 0 => Len(itinerary.daily_itinerary.days) = 0
        /\ MealsNonEmpty(itinerary.restaurants)

\* The fallback for a request whose return date precedes its outbound date.
C9_Witness ==
    /\ Generated /\ GenerationFailed
    /\ Truthy(request.return_date)
    /\ DaysBetween(request.outbound_date, request.return_date) < 0
    /\ duration_days < 0
    /\ path = "fallback"
    /\ itinerary.daily_itinerary.days = <<>>

\* C10 as stated (for the durations that allow it): every returned document
\* has a restaurants object with non-empty breakfast, lunch and dinner lists
\* and a non-empty daily_itinerary list.
C10_Claim ==
    (Generated /\ duration_days >= 1) =>
        /\ MealsNonEmpty(itinerary.restaurants)
        /\ itinerary.daily_itinerary.shape = "list"
        /\ itinerary.daily_itinerary.days /= <<>>

\* C11 as stated (for the durations a day list can have): in every returned
\* document the number of entries of daily_itinerary equals the requested
\* duration in days.
C11_Claim ==
    (Generated /\ duration_days >= 0) =>
        /\ itinerary.daily_itinerary.shape = "list"
        /\ Len(itinerary.daily_itinerary.days) = duration_days

-----------------------------------------------------------------------------
(* Claims about the request coordinator (checked under Spec) *)

Received == pc /= "idle"

\* C1: a request in which origin, destination or outbound_date is missing or
\* empty is answered 400, and no upstream call (flight, hotel, web search,
\* generation) is issued for it, before or after the rejection.
C1_RejectWithoutCalls ==
    (Received /\ ~(Truthy(request.origin) /\ Truthy(request.destination)
                   /\ Truthy(request.outbound_date))) =>
        /\ pc = "done"
        /\ status = 400
        /\ calls = <<>>
        /\ raised = ""

\* The request of the end-to-end test: origin and outbound_date present,
\* destination missing.
C1_Witness ==
    /\ pc = "done"
    /\ request.origin = "LHR" /\ request.outbound_date = OutboundDay
    /\ request.destination = None
    /\ status = 400
    /\ calls = <<>>

\* C2 as stated, for the sweeps all of whose answers are failures or
\* well-formed lists of offers, with or without a price: a request that
\* passes validation completes with 200 and a full payload whatever the
\* upstream providers answer.
C2_Claim ==
    (pc = "done" /\ ~MissingRequired(request)
        /\ \A k \in 1..Len(responses) : ~Malformed(responses[k])) =>
        /\ status = 200
        /\ raised = ""

NumCalls(api) == Cardinality({k \in 1..Len(calls) : calls[k].api = api})

\* The night count search_airbnb computes for the call the coordinator makes.
Nights == DaysBetween(request.outbound_date, return_date)

\* C12 as stated: a rental search whose check-out date is equal to or before
\* its check-in date fails before producing any listing, so no listing is
\* returned whose total price comes from a zero or negative night count.
C12_Claim ==
    (NumCalls("web") = 1 /\ Nights <= 0) => airbnb_options = <<>>

\* The accommodation mode of the request.
Mode == IF request.accommodation_type = Missing THEN "hotel" ELSE request.accommodation_type

\* The flight options the sweep answers determine: the ranking of the offers
\* aggregated from the answers, a function of the request and of the flight
\* answers alone.
FlightsOf(req, ret, resps) ==
    find_best_value_flights(SweepResults(resps, req.outbound_date, ret, Len(resps)))

FlightsRanked ==
    /\ pc \notin {"idle", "sweep", "rank"}
    /\ raised \notin {"analyze_flexible_dates", "find_best_value_flights"}

\* C13 as stated, on the validated requests that have been answered and
\* whose flights were ranked (the handler reached its accommodation block):
\* in mode hotel the hotel search was issued and no rental search, in mode
\* airbnb the rental search and no hotel search, in mode mixed both; and in
\* mode mixed each of hotel_options and airbnb_options is populated from its
\* own upstream answer.
C13_Claim ==
    (pc = "done" /\ ~MissingRequired(request) /\ FlightsRanked) =>
        /\ Mode = "hotel" => NumCalls("hotels") = 1 /\ NumCalls("web") = 0
        /\ Mode = "airbnb" => NumCalls("web") = 1 /\ NumCalls("hotels") = 0
        /\ Mode = "mixed" =>
              /\ NumCalls("hotels") = 1 /\ NumCalls("web") = 1
              /\ hotel_options = HotelOptions(hotels).value
              /\ airbnb_options =
                     AirbnbOptions(search_airbnb(web, request.outbound_date, return_date))

\* C14 as stated, first half: once the flights of a validated request are
\* ranked, whatever the hotel and rental searches return and however they
\* fail, the generator is invoked and the response carries the flight options
\* and the recommended flight cost that the flight answers determine.  (Runs
\* in which the summary of the generated document raises are left aside.)
C14_Claim ==
    (pc = "done" /\ ~MissingRequired(request) /\ FlightsRanked
        /\ (gen.kind = "none" \/ ~SummaryRaises(itinerary))) =>
        /\ NumCalls("generate") = 1
        /\ status = 200
        /\ response.flight_options = FlightsOf(request, return_date, responses).value
        /\ response.recommended_flight_cost = FlightCost(response.flight_options)

\* The display name the static table gives a code.
Resolved(code) ==
    IF code \in DOMAIN AIRPORT_TO_CITY THEN AIRPORT_TO_CITY[code] ELSE code

\* C15: get_city_name is a total pure lookup.  The destination of every
\* request received resolves to the name the static table maps it to (BCN to
\* "Barcelona, Spain") or, for a code that is not in the table, to the code
\* unchanged; the hotel, rental and generation calls carry that name; and the
\* table is never modified.
C15_Resolver ==
    /\ city_table = AIRPORT_TO_CITY
    /\ Received =>
          /\ request.destination = "BCN" => destination_city = "Barcelona, Spain"
          /\ request.destination \in DOMAIN AIRPORT_TO_CITY =>
                destination_city = AIRPORT_TO_CITY[request.destination]
          /\ request.destination \notin DOMAIN AIRPORT_TO_CITY =>
                destination_city = request.destination
    /\ \A k \in 1..Len(calls) :
          calls[k].api \in {"hotels", "web", "generate"} =>
              calls[k].q = Resolved(request.destination)
    /\ status = 200 => response.destination = Resolved(request.destination)

\* The handler has resolved a code that is not in the table.
C15_Witness ==
    /\ Received
    /\ request.destination = "ZZZ"
    /\ destination_city = "ZZZ"
    /\ city_table["BCN"] = "Barcelona, Spain"

\* C16: the generator makes exactly one generation call per invocation and
\* ends in exactly one of Accept, Repair and Fallback; a transport failure, a
\* parse failure and a parsed value that is not a document end in Fallback
\* (with no second call); and once the call is issued the generator returns a
\* document (restaurants and daily_itinerary present) and does not raise.
C16_Ladder ==
    /\ NumCalls("generate") <= 1
    /\ (gen.kind = "none") <=> (NumCalls("generate") = 0)
    /\ gen.kind /= "none" =>
          /\ pc \in {"done", "raised"}
          /\ raised /= "create_structured_itinerary"
          /\ path \in {"accept", "repair", "fallback"}
          /\ gen.kind \in {"transport", "unparsable", "nondict"} => path = "fallback"
          /\ path = "fallback" => IsFullFallback(itinerary)
          /\ path = "accept" =>
                /\ gen.kind = "dict" /\ itinerary = gen.doc
                /\ {"restaurants", "daily_itinerary"} \subseteq gen.doc.keys
                /\ gen.doc.daily_itinerary.days /= <<>>
          /\ path = "repair" =>
                /\ gen.kind = "dict"
                /\ \/ "restaurants" \notin gen.doc.keys
                   \/ "daily_itinerary" \notin gen.doc.keys
                   \/ gen.doc.daily_itinerary.days = <<>>
                /\ \A key \in gen.doc.keys \ {"daily_itinerary"} : Kept(key)
          /\ {"restaurants", "daily_itinerary"} \subseteq itinerary.keys
          /\ itinerary.daily_itinerary.shape = "list"

\* The generation answer parsed to a value that is not a document, and the
\* one call ended in Fallback.
C16_Witness ==
    /\ gen.kind = "nondict"
    /\ NumCalls("generate") = 1
    /\ path = "fallback"
    /\ IsFullFallback(itinerary)
    /\ pc = "done" /\ status = 200

\* C17 as stated, for the sweeps all of whose answers are failures or
\* well-formed lists of offers, with or without a price: no call is repeated
\* (at most 7 flight searches, one hotel search, one web search, one
\* generation call), the generation call comes last, after the 7 flight
\* searches and the selected accommodation searches, and every validated
\* request gets exactly 7 flight searches and exactly one generation call.
C17_Claim ==
    /\ NumCalls("flights") <= 7
    /\ NumCalls("hotels") <= 1 /\ NumCalls("web") <= 1 /\ NumCalls("generate") <= 1
    /\ \A k \in 1..Len(calls) :
          calls[k].api = "generate" =>
              /\ k = Len(calls)
              /\ NumCalls("flights") = 7
              /\ Mode \in {"hotel", "mixed"} => NumCalls("hotels") = 1
              /\ Mode \in {"airbnb", "mixed"} => NumCalls("web") = 1
    /\ (pc = "done" /\ ~MissingRequired(request)
          /\ \A k \in 1..Len(responses) : ~Malformed(responses[k])) =>
          /\ NumCalls("flights") = 7
          /\ NumCalls("generate") = 1

TotalBudget == IF request.budget = Unset THEN 1000 ELSE request.budget

\* C18: the budget passed to the generator, and reported as remaining_budget,
\* is the total budget minus the price of the first ranked flight, which is
\* the cheapest of the ranked list, or the total budget when the list is
\* empty; it is not clamped, hence negative when that price exceeds the
\* budget.
C18_RemainingBudget ==
    /\ \A k \in 1..Len(calls) :
          calls[k].api = "generate" =>
              /\ best_flights = <<>> => calls[k].budget = TotalBudget
              /\ best_flights /= <<>> =>
                    /\ calls[k].budget = TotalBudget - best_flights[1].price
                    /\ \A j \in 1..Len(best_flights) :
                          best_flights[1].price <= best_flights[j].price
                    /\ best_flights[1].price > TotalBudget => calls[k].budget < 0
    /\ (pc = "done" /\ status = 200) =>
          /\ response.total_budget = TotalBudget
          /\ response.flight_options = best_flights
          /\ response.recommended_flight_cost =
                (IF best_flights = <<>> THEN 0 ELSE best_flights[1].price)
          /\ response.remaining_budget = TotalBudget - response.recommended_flight_cost
          /\ response.remaining_budget = calls[Len(calls)].budget

\* A request with budget 50 whose cheapest ranked flight costs 100: the
\* generator is given, and the response reports, a remaining budget of -50.
C18_Witness ==
    /\ pc = "done" /\ status = 200
    /\ request.budget = 50
    /\ best_flights /= <<>> /\ best_flights[1].price = 100
    /\ calls[Len(calls)].api = "generate" /\ calls[Len(calls)].budget = -50
    /\ response.remaining_budget = -50

ReturnGiven == request.return_date \notin {None, ""}

\* C19: for a validated request the trip duration is the number of days from
\* the outbound date to the return date when a return date is given (the
\* duration_days field is ignored), else the duration_days field, else 5;
\* without a return date the return date is the outbound date plus the
\* duration; so that return date minus outbound date equals the duration, in
\* the handler and in every response.
C19_Duration ==
    (Received /\ ~MissingRequired(request)) =>
        /\ ReturnGiven =>
              /\ duration_days = Strptime(request.return_date) - Strptime(request.outbound_date)
              /\ return_date = request.return_date
        /\ (~ReturnGiven /\ request.duration_days /= Unset) =>
              duration_days = request.duration_days
        /\ (~ReturnGiven /\ request.duration_days = Unset) => duration_days = 5
        /\ ~ReturnGiven =>
              return_date = Strftime(Strptime(request.outbound_date) + duration_days)
        /\ Strptime(return_date) - Strptime(request.outbound_date) = duration_days
        /\ status = 200 =>
              /\ response.trip_duration = duration_days
              /\ response.outbound_date = request.outbound_date
              /\ response.return_date = return_date
              /\ Strptime(response.return_date) - Strptime(response.outbound_date)
                    = response.trip_duration

\* A response to a request with a duration field and no return date: the
\* return date is synthesized.
C19_Witness ==
    /\ pc = "done" /\ status = 200
    /\ request.return_date = None
    /\ request.duration_days = DurationField
    /\ response.trip_duration = DurationField
    /\ response.return_date = Strftime(Strptime(OutboundDay) + DurationField)
    /\ response.return_date /= response.outbound_date

\* The sweep offset an offer was found at, and the rank its candidate had in
\* the upstream list (candidates are told apart by their carrier).
OffsetOf(f) == Strptime(f.outbound_date) - Strptime(request.outbound_date)

RankOf(f) == CHOOSE k \in 1..Len(Carrier) : Carrier[k] = f.airline

\* C20: the sequence analyze_flexible_dates returns is ordered by sweep offset
\* and, within an offset, by upstream rank: of any two offers the one from the
\* smaller offset comes first, offers of one offset appear in the order the
\* upstream listed them, and each carries the price of the candidate of its
\* rank, whatever the prices are.
C20_EmissionOrder ==
    /\ \A j \in 1..Len(all_flights) : \A k \in (j + 1)..Len(all_flights) :
          \/ OffsetOf(all_flights[j]) < OffsetOf(all_flights[k])
          \/ /\ OffsetOf(all_flights[j]) = OffsetOf(all_flights[k])
             /\ RankOf(all_flights[j]) < RankOf(all_flights[k])
    /\ \A j \in 1..Len(all_flights) :
          LET f == all_flights[j]
          IN  /\ OffsetOf(f) \in 0..(Len(responses) - 1)
              /\ RankOf(f) \in 1..Len(responses[OffsetOf(f) + 1].flights)
              /\ f.price = responses[OffsetOf(f) + 1].flights[RankOf(f)].price
    /\ \A j \in 1..Len(all_flights) :
          j + 1 <= Len(all_flights)
             /\ OffsetOf(all_flights[j]) = OffsetOf(all_flights[j + 1])
          => RankOf(all_flights[j + 1]) = RankOf(all_flights[j]) + 1

\* A returned sweep with offers from two offsets, several from one of them,
\* whose order is not the order of the prices: a dearer offer precedes a
\* cheaper one, within an offset and across offsets.
C20_Witness ==
    /\ pc = "rank"
    /\ \E j \in 1..Len(all_flights) : \E k \in (j + 1)..Len(all_flights) :
          /\ OffsetOf(all_flights[j]) = OffsetOf(all_flights[k])
          /\ all_flights[k].price /= NoPrice
          /\ all_flights[j].price > all_flights[k].price
    /\ \E j \in 1..Len(all_flights) : \E k \in (j + 1)..Len(all_flights) :
          /\ OffsetOf(all_flights[j]) < OffsetOf(all_flights[k])
          /\ all_flights[k].price /= NoPrice
          /\ all_flights[j].price > all_flights[k].price

\* C21 as stated, on the requests that are answered: when the mode selects
\* rentals and the return date is not after the outbound date, the response
\* carries the flight options and the itinerary, and its airbnb_options list
\* is empty.
C21_Claim ==
    (pc = "done" /\ status = 200 /\ Mode \in {"airbnb", "mixed"} /\ Nights <= 0) =>
        /\ response.flight_options = best_flights
        /\ response.itinerary = itinerary
        /\ response.airbnb_options = <<>>

\* The hotel normalization loop of create_itinerary raised.
NormalizationRaised == raised = "create_itinerary" /\ gen.kind = "none"

\* C22 as stated: for every hotel search result the normalization does not
\* raise, whatever field of a property is missing or null, and emits the
\* first 10 properties in upstream order, each with a description of at most
\* 200 characters, at most 3 images and at most 5 amenities, a missing price
\* being marked "N/A".
C22_Claim ==
    NumCalls("hotels") = 1 =>
        /\ ~NormalizationRaised
        /\ Len(hotel_options) = Min(10, Len(hotels.properties))
        /\ \A k \in 1..Len(hotel_options) :
              /\ hotel_options[k].description <= 200
              /\ hotel_options[k].images <= 3
              /\ hotel_options[k].amenities <= 5
              /\ hotel_options[k].name =
                    IF hotels.properties[k].name = Missing
                    THEN "N/A" ELSE hotels.properties[k].name
              /\ hotels.properties[k].rate_per_night /= "ok" =>
                    hotel_options[k].price_per_night = "N/A"

\* The prices the offers of a sequence carry.
PricesOf(offers) ==
    {offers[k].price : k \in {j \in 1..Len(offers) : offers[j].price /= NoPrice}}

\* C23 as stated: whenever at least one offer given to the filter has a price
\* and all prices are positive, the filter returns a non-empty sequence whose
\* first element has the minimum price of the input.
C23_Claim ==
    (Ranked /\ PricesOf(all_flights) /= {} /\ \A p \in PricesOf(all_flights) : p > 0) =>
        /\ raised = ""
        /\ best_flights /= <<>>
        /\ \A p \in PricesOf(all_flights) : best_flights[1].price <= p
        /\ best_flights[1].price \in PricesOf(all_flights)

\* C24 as stated, on the validated requests that have been answered and
\* whose flights were ranked: when the mode is none of hotel, airbnb, mixed
\* (rental included), neither accommodation search was issued, the generator
\* was called once, with no lodging digest, and the request completed
\* normally: HTTP 200 with empty hotel_options and airbnb_options; in mode
\* airbnb no hotel search was issued, the hotel result was never set, and the
\* generator was called once with no lodging digest, without raising.
C24_Claim ==
    (pc = "done" /\ ~MissingRequired(request) /\ FlightsRanked) =>
        /\ Mode \notin {"hotel", "airbnb", "mixed"} =>
              /\ NumCalls("hotels") = 0 /\ NumCalls("web") = 0
              /\ NumCalls("generate") = 1
              /\ \A k \in 1..Len(calls) :
                    calls[k].api = "generate" => calls[k].digest = <<>>
              /\ raised = "" /\ status = 200
              /\ response.hotel_options = <<>> /\ response.airbnb_options = <<>>
        /\ Mode = "airbnb" =>
              /\ NumCalls("hotels") = 0 /\ hotels = NoHotels
              /\ NumCalls("generate") = 1
              /\ \A k \in 1..Len(calls) :
                    calls[k].api = "generate" => calls[k].digest = <<>>
              /\ raised /= "create_structured_itinerary"

====
